---- MODULE Spec2Model ----
(***************************************************************************)
(* Model of the Anki add-on "LLM review stats exporter" (src/__init__.py): *)
(* the text sanitizer clean_field_value, the deck resolver                 *)
(* _deck_and_child_ids, the dialog's option readers and the streaming      *)
(* export export_llm_stats (query, projection, JSONL writing, summary).    *)
(*                                                                         *)
(* Text is a sequence of characters, each a one-element string.  A few     *)
(* multi-character lexemes that the regular expressions and html.unescape  *)
(* treat as a unit are one element: "sound:", "img", and the entities      *)
(* "&lt;", "&#91;", "&nbsp;".  "NBSP" is the character U+00A0.             *)
(***************************************************************************)
EXTENDS Integers, Sequences, FiniteSets, TLC

VARIABLES
    col,          \* the collection: deck tree, deck API shape, notes, revlog
    now,          \* the wall clock read by time.time(), in clock ticks
    pc,           \* position of export_llm_stats: "idle", "loop", "returned",
                  \* or "raised" when the call ended with an exception
    opts,         \* arguments of the current/last call of export_llm_stats
    dids,         \* result of _deck_and_child_ids for the current/last call
    cutoff,       \* local cutoff_ms of that call, None without a day window
    rows,         \* rows returned by col.db.execute; the loop has consumed
                  \* the first count of them
    fh,           \* content of the destination file, a sequence of characters
    objs,         \* the dicts handed to json.dumps by the current/last call
    count,        \* local count
    first_ts_ms,  \* local first_ts_ms
    last_ts_ms,   \* local last_ts_ms
    result,       \* the returned ExportResult, None before the return
    prev,         \* when the current run repeats the preceding one with
                  \* identical arguments: the file content and the cutoff_ms
                  \* of the preceding run, else None
    text,         \* argument of a stand-alone clean_field_value call
    cleaned,      \* its return value, None before the call
    tree,         \* deck tree handed to a stand-alone _deck_and_child_ids call
    resolved,     \* its argument and return value, None before the call
    ui            \* on_export_llm_stats and what the user sees: the stage of
                  \* the request, the dialog, the QueryOp and its callbacks

vars == <<col, now, pc, opts, dids, cutoff, rows, fh, objs, count, first_ts_ms,
          last_ts_ms, result, prev, text, cleaned, tree, resolved, ui>>

exportVars == <<col, now, pc, opts, dids, cutoff, rows, fh, objs, count, first_ts_ms,
                last_ts_ms, result, prev>>

\* Optional values: None is the empty sequence, a present value v is <<v>>.
None == <<>>

Some(v) == <<v>>

Val(o) == o[1]

(***************************************************************************)
(* Bounds of the model.                                                    *)
(***************************************************************************)
MaxLen == 4       \* longest text given to a stand-alone clean_field_value
MaxDecks == 4     \* decks of a stand-alone deck tree
MaxRows == 2      \* rows of the revlog
MaxTick == 2      \* clock ticks that pass during a behaviour
ClockRes == 2     \* clock ticks per millisecond (time.time() is a float)
MaxDays == 1      \* largest day window
MaxInterval == 1  \* largest minimum-interval threshold

(***************************************************************************)
(* Generic helpers on sequences.                                           *)
(***************************************************************************)
Range(s) == {s[i] : i \in 1..Len(s)}

Drop(s, n) == SubSeq(s, n + 1, Len(s))

RECURSIVE Flatten(_)
Flatten(ss) == IF ss = <<>> THEN <<>> ELSE Head(ss) \o Flatten(Tail(ss))

RECURSIVE SeqsUpTo(_, _)
SeqsUpTo(S, n) ==
    IF n = 0 THEN {<<>>}
    ELSE LET shorter == SeqsUpTo(S, n - 1)
         IN  shorter \cup {Append(s, c) : s \in shorter, c \in S}

(***************************************************************************)
(* Text sanitizer.                                                         *)
(***************************************************************************)
\* Characters matched by \s and removed by str.strip().
IsSpace(c) == c \in {" ", "\n", "NBSP"}

\* Index of the first element equal to c at or after position i, 0 if none.
RECURSIVE FirstAt(_, _, _)
FirstAt(s, i, c) ==
    IF i > Len(s) THEN 0
    ELSE IF s[i] = c THEN i
    ELSE FirstAt(s, i + 1, c)

\* A match of  head [^close]{min,} close  starting at position i: the index
\* of its last character, 0 when there is no match at i.  The body cannot
\* hold the closing character, so the match ends at the first one.
MatchEnd(s, i, head, close, min) ==
    LET b == i + Len(head)
        j == FirstAt(s, b, close)
    IN  IF /\ b - 1 <= Len(s)
           /\ SubSeq(s, i, b - 1) = head
           /\ j # 0
           /\ j - b >= min
        THEN j
        ELSE 0

\* pattern.sub("", s): the leftmost non-overlapping matches are deleted in a
\* single left-to-right pass.
RECURSIVE SubFrom(_, _, _, _, _)
SubFrom(s, i, head, close, min) ==
    IF i > Len(s) THEN <<>>
    ELSE LET e == MatchEnd(s, i, head, close, min)
         IN  IF e # 0 THEN SubFrom(s, e + 1, head, close, min)
             ELSE <<s[i]>> \o SubFrom(s, i + 1, head, close, min)

\* _SOUND_RE = \[sound:[^\]]+\]
SOUND_RE_sub(s) == SubFrom(s, 1, <<"[", "sound:">>, "]", 1)

\* _IMG_TAG_RE = <img[^>]*>
IMG_TAG_RE_sub(s) == SubFrom(s, 1, <<"<", "img">>, ">", 0)

\* _HTML_TAG_RE = <[^>]+>
HTML_TAG_RE_sub(s) == SubFrom(s, 1, <<"<">>, ">", 1)

\* html.unescape: one pass, every character reference becomes its character.
unescape_char(c) ==
    CASE c = "&lt;" -> "<"
      [] c = "&#91;" -> "["
      [] c = "&nbsp;" -> "NBSP"
      [] OTHER -> c

html_unescape(s) == [i \in 1..Len(s) |-> unescape_char(s[i])]

\* _WS_RE.sub(" ", s): every maximal run of whitespace becomes one space.
RECURSIVE WS_RE_sub(_)
WS_RE_sub(s) ==
    IF s = <<>> THEN <<>>
    ELSE IF IsSpace(Head(s))
         THEN IF Len(s) > 1 /\ IsSpace(s[2])
              THEN WS_RE_sub(Tail(s))
              ELSE <<" ">> \o WS_RE_sub(Tail(s))
         ELSE <<Head(s)>> \o WS_RE_sub(Tail(s))

RECURSIVE lstrip(_)
lstrip(s) == IF s # <<>> /\ IsSpace(Head(s)) THEN lstrip(Tail(s)) ELSE s

RECURSIVE rstrip(_)
rstrip(s) ==
    IF s # <<>> /\ IsSpace(s[Len(s)]) THEN rstrip(SubSeq(s, 1, Len(s) - 1))
    ELSE s

strip(s) == rstrip(lstrip(s))

\* clean_field_value with the entity decoding moved after the tag stripping.
clean_field_value_strip_first(t) ==
    IF t = <<>> THEN <<>>
    ELSE strip(WS_RE_sub(html_unescape(HTML_TAG_RE_sub(
             IMG_TAG_RE_sub(SOUND_RE_sub(t))))))

clean_field_value(t) ==
    IF t = <<>> THEN <<>>
    ELSE strip(WS_RE_sub(HTML_TAG_RE_sub(html_unescape(
             IMG_TAG_RE_sub(SOUND_RE_sub(t))))))

\* The characters a raw field is made of in the stand-alone calls.
TextAlphabet ==
    {"<", ">", "[", "]", "sound:", "img", "&lt;", "&#91;", "&nbsp;", " ", "x"}

InitClean ==
    /\ text \in SeqsUpTo(TextAlphabet, MaxLen)
    /\ cleaned = None
    /\ tree = <<>>
    /\ resolved = None
    /\ col = [revlog |-> {}] /\ now = 0 /\ pc = "idle" /\ opts = <<>>
    /\ dids = <<>> /\ cutoff = None
    /\ rows = <<>> /\ fh = <<>> /\ objs = <<>> /\ count = 0
    /\ first_ts_ms = None /\ last_ts_ms = None /\ result = None /\ prev = None
    /\ ui = <<>>

CallClean ==
    /\ cleaned = None
    /\ cleaned' = Some(clean_field_value(text))
    /\ UNCHANGED <<text, tree, resolved, exportVars, ui>>

NextClean == CallClean

SpecClean == InitClean /\ [][NextClean]_vars

(***************************************************************************)
(* Deck hierarchy resolver.  A deck tree is a sequence t where t[d] is the *)
(* parent of deck d, 0 for a top-level deck; parents have smaller ids, so  *)
(* the hierarchy is acyclic.                                               *)
(***************************************************************************)
RECURSIVE Trees(_)
Trees(n) ==
    IF n = 0 THEN {<<>>}
    ELSE {Append(t, p) : t \in Trees(n - 1), p \in 0..(n - 1)}

RECURSIVE IsBelow(_, _, _)
IsBelow(t, d, a) == t[d] # 0 /\ (t[d] = a \/ IsBelow(t, t[d], a))

Descendants(t, a) == {d \in 1..Len(t) : IsBelow(t, d, a)}

\* The elements of a set of integers in ascending order.
RECURSIVE Ascending(_)
Ascending(S) ==
    IF S = {} THEN <<>>
    ELSE LET m == CHOOSE x \in S : \A y \in S : x <= y
         IN  <<m>> \o Ascending(S \ {m})

\* How the DeckManager of the running Anki version behaves: whether
\* deck_and_child_ids exists ("absent"), works ("ok") or raises ("raises"),
\* and whether children(did) lists the direct children or every descendant.
ApiShapes == [bulk : {"absent", "ok", "raises"}, children : {"direct", "all"}]

\* manager.deck_and_child_ids(deck_id): the deck followed by its descendants.
deck_and_child_ids(t, deck_id) == <<deck_id>> \o Ascending(Descendants(t, deck_id))

\* col.decks.children(did), as the ids of the (name, id) pairs.
decks_children(t, api, did) ==
    IF api.children = "direct"
    THEN Ascending({d \in 1..Len(t) : t[d] = did})
    ELSE Ascending(Descendants(t, did))

\* collect(did, acc) of _deck_and_child_ids; CollectEach is its for loop over
\* the children cs.
RECURSIVE collect(_, _, _, _), CollectEach(_, _, _, _)
collect(t, api, did, acc) == CollectEach(t, api, decks_children(t, api, did), acc)

CollectEach(t, api, cs, acc) ==
    IF cs = <<>> THEN acc
    ELSE CollectEach(t, api, Tail(cs),
                     collect(t, api, Head(cs), Append(acc, Head(cs))))

\* _deck_and_child_ids whose fallback starts from an empty list.
deck_and_child_ids_without_root(t, api, deck_id) ==
    IF api.bulk = "ok"
    THEN deck_and_child_ids(t, deck_id)
    ELSE collect(t, api, deck_id, <<>>)

_deck_and_child_ids(t, api, deck_id) ==
    IF api.bulk = "ok"
    THEN deck_and_child_ids(t, deck_id)
    ELSE collect(t, api, deck_id, <<deck_id>>)

\* The deck filter "c.did IN " + ids2str(dids).
DeckClause(ds, did) == \E i \in 1..Len(ds) : ds[i] = did

InitDecks ==
    /\ tree \in UNION {Trees(n) : n \in 1..MaxDecks}
    /\ resolved = None
    /\ text = <<>>
    /\ cleaned = None
    /\ col = [revlog |-> {}] /\ now = 0 /\ pc = "idle" /\ opts = <<>>
    /\ dids = <<>> /\ cutoff = None
    /\ rows = <<>> /\ fh = <<>> /\ objs = <<>> /\ count = 0
    /\ first_ts_ms = None /\ last_ts_ms = None /\ result = None /\ prev = None
    /\ ui = <<>>

CallResolve ==
    /\ resolved = None
    /\ \E d \in 1..Len(tree), api \in ApiShapes :
           resolved' = Some([deck_id |-> d, api |-> api,
                             dids |-> _deck_and_child_ids(tree, api, d)])
    /\ UNCHANGED <<tree, text, cleaned, exportVars, ui>>

NextDecks == CallResolve

SpecDecks == InitDecks /\ [][NextDecks]_vars

(***************************************************************************)
(* The collection.  Card c belongs to note c and lies in deck c.  A revlog *)
(* row is [id, cid, ivl]; id is the review time in milliseconds and the    *)
(* primary key.  n.flds joins the fields with "US" (\x1f); n.tags is the   *)
(* tags joined and surrounded by spaces.                                   *)
(***************************************************************************)
SecondsPerDay == 86400
MsPerSecond == 1000

DayMs == SecondsPerDay * MsPerSecond

\* The clock when a behaviour starts, in milliseconds.
StartMs == (MaxDays + 2) * DayMs

\* Deck 2 is a child of deck 1, deck 3 is a top-level deck without children.
DeckTree == <<0, 1, 0>>

DeckNames == << <<"A">>, <<"A", ":", ":", "b">>, <<"C", "\n", "\"">> >>

Notes == <<
    [flds |-> <<"<", "x", ">", "H", "US", "B", " ", "[", "sound:", "x", "]">>,
     tags |-> <<" ", "a", " ">>],
    [flds |-> <<>>,
     tags |-> <<" ", "a", "b", " ">>],
    [flds |-> <<" ", "s", " ", " ", "\"", "US", "US", "&lt;", "\\">>,
     tags |-> <<" ", "A", " ", "b", " ">>] >>

Cards == [c \in 1..Len(Notes) |-> [nid |-> c, did |-> c]]

\* Review times around the cutoff of a one-day window at StartMs.
TsValues == {StartMs - DayMs - 1, StartMs - DayMs, StartMs - DayMs + 1}

IvlValues == {-1, MaxInterval}

RevlogRows == [id : TsValues, cid : 1..Len(Cards), ivl : IvlValues]

\* The revlogs of at most n rows over the candidate rows R, ids distinct.
RECURSIVE Revlogs(_, _)
Revlogs(R, n) ==
    IF n = 0 THEN {{}}
    ELSE LET smaller == Revlogs(R, n - 1)
         IN  smaller \cup
             UNION {{g \cup {r} : r \in {x \in R : \A y \in g : y.id # x.id}} :
                    g \in smaller}

(***************************************************************************)
(* The query of export_llm_stats.                                          *)
(***************************************************************************)
\* int(x) of a quotient a / b with b > 0: truncation toward zero.
IntTrunc(a, b) == IF a >= 0 THEN a \div b ELSE -((-a) \div b)

\* cutoff_ms = int((now_sec - days * 86400) * 1000), the clock in ticks.
cutoff_ms(clock, days) ==
    IntTrunc(clock - days * SecondsPerDay * MsPerSecond * ClockRes, ClockRes)

\* SQLite folds the case of ASCII letters in LIKE.
Lower(c) ==
    CASE c = "A" -> "a"
      [] c = "B" -> "b"
      [] OTHER -> c

\* s LIKE pat: '%' matches any run of characters, '_' any one character,
\* every other character itself without regard to case.
RECURSIVE Like(_, _)
Like(pat, s) ==
    IF pat = <<>> THEN s = <<>>
    ELSE IF Head(pat) = "%"
         THEN \E k \in 0..Len(s) : Like(Tail(pat), Drop(s, k))
         ELSE /\ s # <<>>
              /\ Head(pat) = "_" \/ Lower(Head(pat)) = Lower(Head(s))
              /\ Like(Tail(pat), Tail(s))

\* The parameter f"% {tag} %" of one tag clause.
TagParam(tag) == <<"%", " ">> \o tag \o <<" ", "%">>

\* "(" + " OR ".join(tag_clauses) + ")", added when tags_filter is truthy.
TagClause(tags_filter, n_tags) ==
    (tags_filter # None /\ Val(tags_filter) # <<>>) =>
        \E i \in 1..Len(Val(tags_filter)) :
            Like(TagParam(Val(tags_filter)[i]), n_tags)

\* "r.id >= ?" with the strict comparison.
TimeClauseStrict(cut, id) == cut # None => id > Val(cut)

\* "r.id >= ?" with cutoff_ms, added when days is not None.
TimeClause(cut, id) == cut # None => id >= Val(cut)

\* "r.ivl >= ?", added when min_interval is not None.
IntervalClause(min_interval, ivl) ==
    min_interval # None => ivl >= Val(min_interval)

\* where_sql evaluated on one row of revlog JOIN cards JOIN notes.
Where(o, ds, cut, r) ==
    /\ DeckClause(ds, Cards[r.cid].did)
    /\ TimeClause(cut, r.id)
    /\ TagClause(o.tags_filter, Notes[Cards[r.cid].nid].tags)
    /\ IntervalClause(o.min_interval, r.ivl)

\* The rows in descending order of r.id.
RECURSIVE OrderByIdDesc(_)
OrderByIdDesc(R) ==
    IF R = {} THEN <<>>
    ELSE LET m == CHOOSE x \in R : \A y \in R : x.id >= y.id
         IN  <<m>> \o OrderByIdDesc(R \ {m})

\* ORDER BY r.id.
RECURSIVE OrderById(_)
OrderById(R) ==
    IF R = {} THEN <<>>
    ELSE LET m == CHOOSE x \in R : \A y \in R : x.id <= y.id
         IN  <<m>> \o OrderById(R \ {m})

\* The row tuple of the SELECT for revlog row r.
Joined(r) ==
    [ts_ms |-> r.id, cid |-> r.cid, nid |-> Cards[r.cid].nid,
     did |-> Cards[r.cid].did, ease |-> 3, ivl |-> r.ivl, last_ivl |-> 0,
     factor |-> 2500, review_time_ms |-> 1200, rev_type |-> 1,
     flds |-> Notes[Cards[r.cid].nid].flds]

\* col.db.execute(sql, *params): the matching rows in query order.
execute(revlog, o, ds, cut) ==
    LET hits == OrderById({r \in revlog : Where(o, ds, cut, r)})
    IN  [i \in 1..Len(hits) |-> Joined(hits[i])]

(***************************************************************************)
(* The projection of one row and its serialization.                        *)
(***************************************************************************)
\* s.split(sep) for a one-character separator.
RECURSIVE SplitOn(_, _)
SplitOn(s, sep) ==
    LET j == FirstAt(s, 1, sep)
    IN  IF j = 0 THEN <<s>>
        ELSE <<SubSeq(s, 1, j - 1)>> \o SplitOn(Drop(s, j), sep)

\* raw_fields = flds.split("\x1f") if flds else []
raw_fields_of(flds) == IF flds = <<>> THEN <<>> ELSE SplitOn(flds, "US")

\* The loop "for idx in field_indexes" with Python's indexing from the end
\* for a negative idx, the lower bound of the range test left out.
RECURSIVE select_by_index_unchecked_low(_, _)
select_by_index_unchecked_low(idxs, raw) ==
    IF idxs = <<>> THEN <<>>
    ELSE LET idx == Head(idxs)
             pos == IF idx >= 0 THEN idx + 1 ELSE Len(raw) + idx + 1
         IN  (IF idx < Len(raw) /\ pos >= 1
              THEN <<clean_field_value(raw[pos])>>
              ELSE <<>>)
             \o select_by_index_unchecked_low(Tail(idxs), raw)

\* The loop "for idx in field_indexes"; raw[idx + 1] is raw_fields[idx].
RECURSIVE select_by_index(_, _)
select_by_index(idxs, raw) ==
    IF idxs = <<>> THEN <<>>
    ELSE LET idx == Head(idxs)
         IN  (IF 0 <= idx /\ idx < Len(raw)
              THEN <<clean_field_value(raw[idx + 1])>>
              ELSE <<>>)
             \o select_by_index(Tail(idxs), raw)

\* The list fields of the loop body.
fields_of(field_indexes, raw) ==
    IF field_indexes # None
    THEN select_by_index(Val(field_indexes), raw)
    ELSE [i \in 1..Len(raw) |-> clean_field_value(raw[i])]

\* time.strftime("%Y-%m-%dT%H:%M:%SZ", time.gmtime(ts_ms / 1000.0)): the
\* time truncated to whole seconds; the calendar fields are left as the
\* count of seconds.
ts_iso_of(ts_ms) == <<"T", ToString(ts_ms \div MsPerSecond), "Z">>

\* JSON values: an int, a str (sequence of characters), a list of str.
JInt(n) == [t |-> "int", n |-> n]

JStr(x) == [t |-> "str", s |-> x]

JList(l) == [t |-> "list", l |-> l]

\* deck_names.get(did, "<unknown>")
deck_name_of(did) ==
    IF did \in 1..Len(DeckNames) THEN DeckNames[did]
    ELSE <<"<", "u", "n", "k", "n", "o", "w", "n", ">">>

\* The dict obj of the loop body as its items in insertion order; this one
\* applies the optional additions in compact mode too.
build_obj_flags_always(o, row, fields) ==
    LET base == IF o.compact_schema
                THEN << <<"t", JStr(ts_iso_of(row.ts_ms))>>,
                        <<"rt", JInt(row.rev_type)>>,
                        <<"e", JInt(row.ease)>>,
                        <<"i", JInt(row.ivl)>>,
                        <<"li", JInt(row.last_ivl)>>,
                        <<"f", JInt(row.factor)>>,
                        <<"ms", JInt(row.review_time_ms)>>,
                        <<"flds", JList(fields)>> >>
                ELSE << <<"ts_iso", JStr(ts_iso_of(row.ts_ms))>>,
                        <<"ease", JInt(row.ease)>>,
                        <<"interval", JInt(row.ivl)>>,
                        <<"last_interval", JInt(row.last_ivl)>>,
                        <<"factor", JInt(row.factor)>>,
                        <<"review_time_ms", JInt(row.review_time_ms)>>,
                        <<"review_type", JInt(row.rev_type)>>,
                        <<"fields", JList(fields)>> >>
    IN  base
        \o (IF o.include_ts_ms THEN << <<"ts_ms", JInt(row.ts_ms)>> >> ELSE <<>>)
        \o (IF o.include_ids
            THEN << <<"card_id", JInt(row.cid)>>,
                    <<"note_id", JInt(row.nid)>>,
                    <<"deck_id", JInt(row.did)>> >>
            ELSE <<>>)
        \o (IF o.include_deck_name
            THEN << <<"deck_name", JStr(deck_name_of(row.did))>> >>
            ELSE <<>>)

\* The dict obj of the loop body as its items in insertion order.
build_obj(o, row, fields) ==
    IF o.compact_schema
    THEN << <<"t", JStr(ts_iso_of(row.ts_ms))>>,
            <<"rt", JInt(row.rev_type)>>,
            <<"e", JInt(row.ease)>>,
            <<"i", JInt(row.ivl)>>,
            <<"li", JInt(row.last_ivl)>>,
            <<"f", JInt(row.factor)>>,
            <<"ms", JInt(row.review_time_ms)>>,
            <<"flds", JList(fields)>> >>
    ELSE << <<"ts_iso", JStr(ts_iso_of(row.ts_ms))>>,
            <<"ease", JInt(row.ease)>>,
            <<"interval", JInt(row.ivl)>>,
            <<"last_interval", JInt(row.last_ivl)>>,
            <<"factor", JInt(row.factor)>>,
            <<"review_time_ms", JInt(row.review_time_ms)>>,
            <<"review_type", JInt(row.rev_type)>>,
            <<"fields", JList(fields)>> >>
         \o (IF o.include_ts_ms
             THEN << <<"ts_ms", JInt(row.ts_ms)>> >>
             ELSE <<>>)
         \o (IF o.include_ids
             THEN << <<"card_id", JInt(row.cid)>>,
                     <<"note_id", JInt(row.nid)>>,
                     <<"deck_id", JInt(row.did)>> >>
             ELSE <<>>)
         \o (IF o.include_deck_name
             THEN << <<"deck_name", JStr(deck_name_of(row.did))>> >>
             ELSE <<>>)

\* json.dumps of a str without the escaping of its characters.
json_dumps_str_raw(x) == <<"\"">> \o x \o <<"\"">>

\* json.dumps of a str with ensure_ascii=False: quotes around the characters,
\* the quote, the backslash and the control characters escaped.
json_dumps_str(x) ==
    LET esc(c) == CASE c = "\"" -> <<"\\", "\"">>
                    [] c = "\\" -> <<"\\", "\\">>
                    [] c = "\n" -> <<"\\", "n">>
                    [] c = "US" -> <<"\\", "u", "0", "0", "1", "f">>
                    [] OTHER -> <<c>>
    IN  <<"\"">> \o Flatten([i \in 1..Len(x) |-> esc(x[i])]) \o <<"\"">>

\* The items xs joined with ", ".
RECURSIVE JoinComma(_)
JoinComma(xs) ==
    IF xs = <<>> THEN <<>>
    ELSE IF Len(xs) = 1 THEN Head(xs)
    ELSE Head(xs) \o <<", ">> \o JoinComma(Tail(xs))

json_dumps_value(v) ==
    CASE v.t = "int" -> <<ToString(v.n)>>
      [] v.t = "str" -> json_dumps_str(v.s)
      [] v.t = "list" ->
            <<"[">> \o JoinComma([i \in 1..Len(v.l) |-> json_dumps_str(v.l[i])])
                    \o <<"]">>

\* json.dumps(obj, ensure_ascii=False), as the characters of the line.
json_dumps(obj) ==
    <<"{">>
    \o JoinComma([i \in 1..Len(obj) |->
           json_dumps_str(<<obj[i][1]>>) \o <<": ">> \o json_dumps_value(obj[i][2])])
    \o <<"}">>

(***************************************************************************)
(* The dialog's readers of its widgets.                                    *)
(***************************************************************************)
\* LLMStatsDialog.selected_days: the custom spin box wins when positive.
selected_days(custom_days, range_data) ==
    IF custom_days # 0 /\ custom_days > 0 THEN Some(custom_days) ELSE range_data

\* str.lower() of every character.
str_lower(x) == [i \in 1..Len(x) |-> Lower(x[i])]

\* str.split(): the maximal runs of non-whitespace characters.
RECURSIVE str_split(_)
str_split(x) ==
    LET y == lstrip(x)
        j == FirstAt(y, 1, " ")
    IN  IF y = <<>> THEN <<>>
        ELSE IF j = 0 THEN <<y>>
        ELSE <<SubSeq(y, 1, j - 1)>> \o str_split(Drop(y, j))

\* LLMStatsDialog.selected_tags: commas become spaces, the text is split on
\* whitespace and every tag is lower-cased.
selected_tags(edit_text) ==
    LET stripped == strip(edit_text)
        spaced == [i \in 1..Len(stripped) |->
                      IF stripped[i] = "," THEN " " ELSE stripped[i]]
        parts == str_split(spaced)
        tags == [i \in 1..Len(parts) |-> str_lower(strip(parts[i]))]
    IN  IF stripped = <<>> THEN None
        ELSE IF tags = <<>> THEN None
        ELSE Some(tags)

\* LLMStatsDialog.min_interval: 0 means no minimum.
min_interval(value) == IF value > 0 THEN Some(value) ELSE None

(***************************************************************************)
(* Arguments of export_llm_stats.                                          *)
(***************************************************************************)
Options(deck, days, idxs, tags, ivl, ids, name, ts, compact) ==
    [deck_id |-> deck, days |-> days, field_indexes |-> idxs,
     tags_filter |-> tags, min_interval |-> ivl,
     include_ids |-> ids, include_deck_name |-> name,
     include_ts_ms |-> ts, compact_schema |-> compact]

DeckIds == 1..Len(DeckTree)

DayChoices == {None} \cup {Some(n) : n \in 0..MaxDays}

IntervalChoices == {None} \cup {Some(n) : n \in 0..MaxInterval}

\* Tag lists a caller passes: absent, empty, a plain tag, a tag holding the
\* LIKE wildcard '_', and two tags of which one is in upper case.
TagChoices ==
    {None, Some(<<>>), Some(<< <<"a">> >>), Some(<< <<"a", "_">> >>),
     Some(<< <<"A">>, <<"b">> >>)}

\* Calls that vary the filters; the verbose schema with ts_ms and the ids
\* identifies every written row.
FilterOptions ==
    {Options(d, days, None, tags, ivl, TRUE, FALSE, TRUE, FALSE) :
        d \in DeckIds, days \in DayChoices, tags \in TagChoices,
        ivl \in IntervalChoices}

\* Texts of the dialog's tag field.
TagEdits ==
    {<<>>, <<" ", ",", " ">>, <<"A">>, <<"a", "_">>, <<"A", ",", " ", "b">>}

\* Data of the dialog's range combo box within the model's horizon: the
\* entries "Last day (24h)" and "All history" of TIME_RANGE_OPTIONS.
RangeData == {Some(1), None}

\* Field index lists: absent, empty, reversed order, one index repeated and
\* one past the end of every note, negative indexes.
IndexChoices ==
    {None, Some(<<>>), Some(<<1, 0>>), Some(<<0, 3, 0>>), Some(<<-1, 2, -4>>)}

\* Calls that vary the deck and the day window only.
WindowOptions ==
    {Options(d, days, None, None, None, TRUE, FALSE, TRUE, FALSE) :
        d \in DeckIds, days \in DayChoices}

\* Calls that vary the projection of the rows.
SchemaOptions ==
    {Options(d, None, idx, None, None, ids, dn, ts, compact) :
        d \in DeckIds, idx \in IndexChoices, ids \in BOOLEAN, dn \in BOOLEAN,
        ts \in BOOLEAN, compact \in BOOLEAN}

(***************************************************************************)
(* export_llm_stats.                                                       *)
(***************************************************************************)
\* open(out_path, "a"): the content of the file is kept.
open_a(content) == content

\* open(out_path, "w"): the file is created or emptied.
open_w(content) == <<>>

\* The clock in clock ticks when a behaviour starts.
StartClock == StartMs * ClockRes

\* From the entry of export_llm_stats to the start of the loop: the deck
\* set, the query, and open(out_path, "w"), which empties the file.
Begin(o, api) ==
    /\ LET ds == _deck_and_child_ids(DeckTree, api, o.deck_id)
           cut == IF o.days # None THEN Some(cutoff_ms(now, Val(o.days)))
                  ELSE None
       IN  /\ dids' = ds
           /\ cutoff' = cut
           /\ rows' = execute(col.revlog, o, ds, cut)
    /\ opts' = o
    /\ fh' = open_w(fh)
    /\ objs' = <<>>
    /\ count' = 0
    /\ first_ts_ms' = None
    /\ last_ts_ms' = None
    /\ result' = None
    /\ pc' = "loop"
    /\ UNCHANGED <<col, now, text, cleaned, tree, resolved>>

\* A call of export_llm_stats with its arguments given by the caller.  A
\* first call starts from "idle"; a call after a return that is not RunAgain
\* would begin from the same values and reach the same states.
export_llm_stats ==
    \E o \in FilterOptions, api \in ApiShapes :
        /\ pc = "idle"
        /\ Begin(o, api)
        /\ prev' = None
        /\ UNCHANGED ui

\* on_export_llm_stats: the dialog is accepted and the export runs with the
\* arguments read from its widgets.
on_export_llm_stats ==
    \E d \in DeckIds, custom_days \in 0..MaxDays, range_data \in RangeData,
       edit \in TagEdits, spin \in 0..MaxInterval, api \in ApiShapes :
        /\ pc = "idle"
        /\ Begin(Options(d, selected_days(custom_days, range_data), None,
                         selected_tags(edit), min_interval(spin),
                         TRUE, FALSE, TRUE, FALSE), api)
        /\ prev' = None
        /\ UNCHANGED ui

\* A call of export_llm_stats that varies the schema and the field indexes.
export_llm_stats_schema ==
    \E o \in SchemaOptions, api \in ApiShapes :
        /\ pc = "idle"
        /\ Begin(o, api)
        /\ prev' = None
        /\ UNCHANGED ui

\* A call of export_llm_stats that varies the deck and the day window.
export_llm_stats_window ==
    \E o \in WindowOptions, api \in ApiShapes :
        /\ pc = "idle"
        /\ Begin(o, api)
        /\ prev' = None
        /\ UNCHANGED ui

\* The same call once more: identical arguments, the collection unchanged.
RunAgain ==
    /\ pc = "returned"
    /\ prev = None
    /\ \E api \in ApiShapes : Begin(opts, api)
    /\ prev' = Some([fh |-> fh, cutoff |-> cutoff])
    /\ UNCHANGED ui

\* first_ts_ms overwritten on every row, as last_ts_ms is.
track_first_every_row(first, ts_ms) == Some(ts_ms)

\* "if first_ts_ms is None: first_ts_ms = ts_ms".
track_first(first, ts_ms) == IF first = None THEN Some(ts_ms) ELSE first

\* "last_ts_ms = ts_ms".
track_last(last, ts_ms) == Some(ts_ms)

\* One iteration of "for row in col.db.execute(sql, *params)".
WriteRow ==
    /\ pc = "loop"
    /\ count < Len(rows)
    /\ LET row == rows[count + 1]
           fields == fields_of(opts.field_indexes, raw_fields_of(row.flds))
           obj == build_obj(opts, row, fields)
       IN  /\ first_ts_ms' = track_first(first_ts_ms, row.ts_ms)
           /\ last_ts_ms' = track_last(last_ts_ms, row.ts_ms)
           /\ fh' = fh \o json_dumps(obj) \o <<"\n">>
           /\ objs' = Append(objs, obj)
           /\ count' = count + 1
    /\ UNCHANGED <<col, now, pc, opts, dids, cutoff, rows, result, prev, text,
                   cleaned, tree, resolved, ui>>

\* The end of the loop and "return ExportResult(...)".
Return ==
    /\ pc = "loop"
    /\ count = Len(rows)
    /\ result' = Some([count |-> count, first_ts_ms |-> first_ts_ms,
                       last_ts_ms |-> last_ts_ms,
                       deck_name |-> deck_name_of(opts.deck_id)])
    /\ pc' = "returned"
    /\ UNCHANGED <<col, now, opts, dids, cutoff, rows, fh, objs, count,
                   first_ts_ms, last_ts_ms, prev, text, cleaned, tree, resolved,
                   ui>>

\* Time passes between two calls.
Tick ==
    /\ pc \in {"idle", "returned"}
    /\ now < StartClock + MaxTick
    /\ now' = now + 1
    /\ UNCHANGED <<col, pc, opts, dids, cutoff, rows, fh, objs, count,
                   first_ts_ms, last_ts_ms, result, prev, text, cleaned, tree,
                   resolved, ui>>

NoCall == Options(0, None, None, None, None, FALSE, FALSE, FALSE, FALSE)

InitExport(revlogs) ==
    /\ col \in [revlog : revlogs]
    /\ now = StartClock
    /\ pc = "idle"
    /\ opts = NoCall
    /\ dids = <<>>
    /\ cutoff = None
    /\ rows = <<>>
    /\ fh = <<>>
    /\ objs = <<>>
    /\ count = 0
    /\ first_ts_ms = None
    /\ last_ts_ms = None
    /\ result = None
    /\ prev = None
    /\ text = <<>>
    /\ cleaned = None
    /\ tree = <<>>
    /\ resolved = None
    /\ ui = <<>>

Init == InitExport(Revlogs(RevlogRows, MaxRows))

Next ==
    \/ export_llm_stats
    \/ on_export_llm_stats
    \/ WriteRow
    \/ Return

Spec == Init /\ [][Next]_vars

\* The revlogs of the behaviours in which time passes between two runs.
WindowRevlogRows == [id : TsValues, cid : 1..Len(Cards), ivl : {MaxInterval}]

InitWindow == InitExport(Revlogs(WindowRevlogRows, MaxRows))

NextWindow ==
    \/ export_llm_stats_window
    \/ RunAgain
    \/ WriteRow
    \/ Return
    \/ Tick

SpecWindow == InitWindow /\ [][NextWindow]_vars

\* The revlogs of the behaviours that vary the projection: reviews at one
\* of two times.
SchemaRevlogRows ==
    [id : {StartMs - 1, StartMs}, cid : 1..Len(Cards), ivl : {MaxInterval}]

InitSchema == InitExport(Revlogs(SchemaRevlogRows, MaxRows))

NextSchema ==
    \/ export_llm_stats_schema
    \/ WriteRow
    \/ Return

SpecSchema == InitSchema /\ [][NextSchema]_vars

(***************************************************************************)
(* on_export_llm_stats: the menu action, the configuration dialog, and the *)
(* QueryOp that runs export_llm_stats in a background thread and calls one *)
(* of the two callbacks on the main thread.  One request per behaviour.    *)
(*                                                                         *)
(* ui.stage is "menu" before the action is triggered, "dialog" while the   *)
(* dialog is open, "background" from run_in_background() to the completion *)
(* handler, "reported" after a callback ran, and "returned" when           *)
(* on_export_llm_stats returned without starting an operation.             *)
(***************************************************************************)
\* LLMStatsDialog.output_path: the text of the path field, stripped.
output_path(edit_text) == strip(edit_text)

\* Texts of the dialog's path field: emptied, blank, and a path.
PathEdits == {<<>>, <<" ">>, <<"o", ".", "j">>}

\* The destination before the request: no file, or a file with older lines.
OldFiles ==
    {[exists |-> FALSE, content |-> <<>>],
     [exists |-> TRUE, content |-> <<"{", "}", "\n">>]}

\* A missing "if not out_path" test.
path_always_given(out_path) == TRUE

\* "if not out_path" is false: the path is not the empty string.
path_given(out_path) == out_path # <<>>

\* _on_success: the summary box; the hint about the filters is added when
\* no review was exported.
_on_success(res) ==
    [kind |-> "success", result |-> res, no_match_hint |-> res.count = 0]

\* _on_failure: the error box with the text of the exception.
_on_failure(exc) == [kind |-> "failure", exc |-> exc]

\* A run without a matching review handed to the failure callback.
wrapped_done_no_rows_fail(position, res, exc) ==
    IF position = "raised" THEN <<_on_failure(Val(exc))>>
    ELSE IF Val(res).count = 0 THEN <<_on_failure("no rows")>>
    ELSE <<_on_success(Val(res))>>

\* The callbacks QueryOp calls when the background call has ended: the one
\* given to failure() when the call raised an exception, else the one given
\* as success, with the returned value.
wrapped_done(position, res, exc) ==
    IF position = "raised" THEN <<_on_failure(Val(exc))>>
    ELSE <<_on_success(Val(res))>>

\* The action is triggered from the Tools menu.  Without a collection the
\* function returns; else the dialog is built, and _populate_decks reads
\* the deck list from the collection.
MenuTriggered ==
    /\ ui.stage = "menu"
    /\ \E has_col \in BOOLEAN :
           ui' = IF has_col
                 THEN [ui EXCEPT !.stage = "dialog",
                                 !.accesses = Append(@, "all_names_and_ids")]
                 ELSE [ui EXCEPT !.stage = "returned"]
    /\ UNCHANGED <<exportVars, text, cleaned, tree, resolved>>

\* dlg.exec() returns false: the user cancelled.
DialogRejected ==
    /\ ui.stage = "dialog"
    /\ ui' = [ui EXCEPT !.stage = "returned"]
    /\ UNCHANGED <<exportVars, text, cleaned, tree, resolved>>

\* dlg.exec() returns true: the widgets are read; an empty path shows the
\* tooltip and returns, else the QueryOp is built and run_in_background()
\* queues the call of export_llm_stats.
DialogAccepted ==
    /\ ui.stage = "dialog"
    /\ \E d \in DeckIds, range_data \in RangeData, spin \in {0, MaxInterval},
          edit \in PathEdits :
           LET out_path == output_path(edit)
               args == Options(d, selected_days(0, range_data), None,
                               selected_tags(<<>>), min_interval(spin),
                               FALSE, FALSE, FALSE, FALSE)
           IN  ui' = IF ~path_given(out_path)
                     THEN [ui EXCEPT !.stage = "returned",
                                     !.accepted = TRUE,
                                     !.out_path = out_path,
                                     !.tooltip = Some("Invalid file path.")]
                     ELSE [ui EXCEPT !.stage = "background",
                                     !.accepted = TRUE,
                                     !.out_path = out_path,
                                     !.args = Some(args),
                                     !.started = @ + 1]
    /\ UNCHANGED <<exportVars, text, cleaned, tree, resolved>>

\* The background thread enters export_llm_stats and reaches the loop.
OpBegin ==
    /\ ui.stage = "background"
    /\ pc = "idle"
    /\ \E api \in ApiShapes : Begin(Val(ui.args), api)
    /\ prev' = None
    /\ ui' = [ui EXCEPT !.accesses = Append(@, "export"), !.exists = TRUE]

\* export_llm_stats raises before the file is opened: the deck lookup,
\* os.makedirs or open() fails.  The destination is as it was.
OpRaisesBeforeOpen ==
    /\ ui.stage = "background"
    /\ pc = "idle"
    /\ pc' = "raised"
    /\ opts' = Val(ui.args)
    /\ \E e \in {"data source", "makedirs", "open"} :
           ui' = [ui EXCEPT !.accesses = Append(@, "export"), !.exc = Some(e)]
    /\ UNCHANGED <<col, now, dids, cutoff, rows, fh, objs, count, first_ts_ms,
                   last_ts_ms, result, prev, text, cleaned, tree, resolved>>

\* col.db.execute raises: the file was opened with "w" and is empty.
OpRaisesInExecute ==
    /\ ui.stage = "background"
    /\ pc = "idle"
    /\ pc' = "raised"
    /\ opts' = Val(ui.args)
    /\ fh' = open_w(fh)
    /\ ui' = [ui EXCEPT !.accesses = Append(@, "export"), !.exists = TRUE,
                        !.exc = Some("data source")]
    /\ UNCHANGED <<col, now, dids, cutoff, rows, objs, count, first_ts_ms,
                   last_ts_ms, result, prev, text, cleaned, tree, resolved>>

\* fh.write or the fetch of the next row raises inside the loop: the lines
\* written so far stay in the file.
OpRaisesInLoop ==
    /\ ui.stage = "background"
    /\ pc = "loop"
    /\ count < Len(rows)
    /\ pc' = "raised"
    /\ \E e \in {"data source", "write"} : ui' = [ui EXCEPT !.exc = Some(e)]
    /\ UNCHANGED <<col, now, opts, dids, cutoff, rows, fh, objs, count,
                   first_ts_ms, last_ts_ms, result, prev, text, cleaned, tree,
                   resolved>>

\* The call has ended; QueryOp calls a callback on the main thread.
OpDone ==
    /\ ui.stage = "background"
    /\ pc \in {"returned", "raised"}
    /\ ui' = [ui EXCEPT !.stage = "reported",
                        !.reported = @ \o wrapped_done(pc, result, ui.exc)]
    /\ UNCHANGED <<exportVars, text, cleaned, tree, resolved>>

\* The steps of the background thread.
Background ==
    \/ OpBegin
    \/ OpRaisesBeforeOpen
    \/ OpRaisesInExecute
    \/ WriteRow
    \/ OpRaisesInLoop
    \/ Return

InitGlue ==
    /\ col \in [revlog : Revlogs(WindowRevlogRows, MaxRows)]
    /\ now = StartClock
    /\ pc = "idle"
    /\ opts = NoCall
    /\ dids = <<>>
    /\ cutoff = None
    /\ rows = <<>>
    /\ \E f \in OldFiles :
           /\ fh = f.content
           /\ ui = [stage |-> "menu", accepted |-> FALSE, out_path |-> <<>>,
                    args |-> None, accesses |-> <<>>, tooltip |-> None,
                    started |-> 0, exc |-> None, reported |-> <<>>,
                    exists |-> f.exists, before |-> f]
    /\ objs = <<>>
    /\ count = 0
    /\ first_ts_ms = None
    /\ last_ts_ms = None
    /\ result = None
    /\ prev = None
    /\ text = <<>>
    /\ cleaned = None
    /\ tree = <<>>
    /\ resolved = None

NextGlue ==
    \/ MenuTriggered
    \/ DialogRejected
    \/ DialogAccepted
    \/ OpBegin
    \/ OpRaisesBeforeOpen
    \/ OpRaisesInExecute
    \/ WriteRow
    \/ OpRaisesInLoop
    \/ Return
    \/ OpDone

\* ENABLED <<Background>>_vars: the call is queued or inside its loop.
BackgroundPending == ui.stage = "background" /\ pc \in {"idle", "loop"}

\* WF_vars(Background) with its enabling condition written out: the
\* background thread keeps running until the call ends.
BackgroundFair == []<>(~BackgroundPending) \/ []<><<Background>>_vars

\* The background thread runs, and the task manager runs the completion
\* handler on the main thread.
SpecGlue ==
    InitGlue /\ [][NextGlue]_vars /\ BackgroundFair /\ WF_vars(OpDone)

(***************************************************************************)
(* Properties of the deck resolver.                                        *)
(***************************************************************************)
\* C6: the result of _deck_and_child_ids always contains deck_id; it is
\* exactly [deck_id] for a deck without children; as a set it is deck_id plus
\* all descendants (more than one id when there are descendants); and the
\* deck filter built from it selects exactly those decks, duplicates or not.
C6_DeckSet ==
    resolved # None =>
        LET d == Val(resolved).deck_id
            ds == Val(resolved).dids
            desc == Descendants(tree, d)
        IN  /\ d \in Range(ds)
            /\ Range(ds) = {d} \cup desc
            /\ desc = {} => ds = <<d>>
            /\ desc # {} => Cardinality(Range(ds)) > 1
            /\ {x \in 1..Len(tree) : DeckClause(ds, x)} = {d} \cup desc

\* The fallback ran after the bulk call raised, on a deck with a grandchild,
\* and listed some deck twice.
C6_Witness ==
    /\ resolved # None
    /\ Val(resolved).api.bulk = "raises"
    /\ \E c \in Descendants(tree, Val(resolved).deck_id) :
           Descendants(tree, c) # {}
    /\ Len(Val(resolved).dids) > Cardinality(Range(Val(resolved).dids))

(***************************************************************************)
(* Properties of the text sanitizer.                                       *)
(***************************************************************************)
HasMatch(s, head, close, min) ==
    \E i \in 1..Len(s) : MatchEnd(s, i, head, close, min) # 0

HasSoundToken(s) == HasMatch(s, <<"[", "sound:">>, "]", 1)

HasTag(s) == HasMatch(s, <<"<">>, ">", 1)

WhitespaceNormal(s) ==
    /\ \A i \in 1..Len(s) : IsSpace(s[i]) => s[i] = " "
    /\ \A i \in 1..(Len(s) - 1) : ~(s[i] = " " /\ s[i + 1] = " ")
    /\ s # <<>> => (s[1] # " " /\ s[Len(s)] # " ")

HasEntity(s) == Range(s) \cap {"&lt;", "&#91;", "&nbsp;"} # {}

Returned == pc = "returned"

\* The value of key k in the dict obj.
ObjGet(obj, k) == obj[CHOOSE i \in 1..Len(obj) : obj[i][1] = k][2]

ObjKeys(obj) == {obj[i][1] : i \in 1..Len(obj)}

\* The rows of the revlog that lie in the chosen deck or a deck below it.
InDeckSet(r) ==
    Cards[r.cid].did \in {opts.deck_id} \cup Descendants(DeckTree, opts.deck_id)

\* The review times of the rows the query returned.
SelectedIds == {rows[i].ts_ms : i \in 1..Len(rows)}

NumNewlines(f) == Cardinality({i \in 1..Len(f) : f[i] = "\n"})

\* The newline-terminated lines of a file, without their newline.
FileLines(f) ==
    LET pieces == SplitOn(f, "\n")
    IN  SubSeq(pieces, 1, Len(pieces) - 1)

\* A line scanned as JSON text from position i: strings are closed, every
\* backslash in a string escapes a following character, no string holds a
\* raw newline, and no brace or quote stands outside the strings.
RECURSIVE ScansAsJson(_, _, _)
ScansAsJson(line, i, inStr) ==
    IF i > Len(line) THEN ~inStr
    ELSE IF inStr
         THEN CASE line[i] = "\\" ->
                       i + 1 <= Len(line) /\ ScansAsJson(line, i + 2, TRUE)
                [] line[i] = "\"" -> ScansAsJson(line, i + 1, FALSE)
                [] line[i] = "\n" -> FALSE
                [] OTHER -> ScansAsJson(line, i + 1, TRUE)
         ELSE CASE line[i] = "\"" -> ScansAsJson(line, i + 1, TRUE)
                [] line[i] \in {"{", "}", "\\", "\n"} -> FALSE
                [] OTHER -> ScansAsJson(line, i + 1, FALSE)

IsJsonObjectLine(line) ==
    /\ Len(line) >= 2
    /\ line[1] = "{"
    /\ line[Len(line)] = "}"
    /\ ScansAsJson(SubSeq(line, 2, Len(line) - 1), 1, FALSE)

\* C1: when export_llm_stats has returned, ExportResult.count is the number
\* of newline-terminated lines of the file, the file ends with a newline,
\* there is one line per written object and every line is one JSON object.
C1_CountIsLines ==
    Returned =>
        /\ Val(result).count = NumNewlines(fh)
        /\ fh # <<>> => fh[Len(fh)] = "\n"
        /\ Len(FileLines(fh)) = Len(objs)
        /\ \A k \in 1..Len(FileLines(fh)) : IsJsonObjectLine(FileLines(fh)[k])

\* Two rows were written whose deck name holds a newline and a quote.
C1_Witness ==
    /\ Returned
    /\ Val(result).count = 2
    /\ opts.include_deck_name
    /\ ~opts.compact_schema
    /\ \A k \in 1..Len(objs) : "\n" \in Range(ObjGet(objs[k], "deck_name").s)

\* C2: in a returned ExportResult, count > 0 comes with both timestamps
\* present and first_ts_ms <= last_ts_ms, count = 0 with both absent.
C2_FirstLast ==
    Returned =>
        LET r == Val(result)
        IN  IF r.count > 0
            THEN /\ r.first_ts_ms # None
                 /\ r.last_ts_ms # None
                 /\ Val(r.first_ts_ms) <= Val(r.last_ts_ms)
            ELSE r.first_ts_ms = None /\ r.last_ts_ms = None

\* A run returned two rows of different times, another run returned none.
C2_Witness ==
    /\ Returned
    /\ Val(result).count = 2
    /\ Val(Val(result).first_ts_ms) < Val(Val(result).last_ts_ms)

\* C3: with days absent every row of the deck set is selected; with
\* days = N a row of the deck set is selected iff its time in milliseconds
\* is at or after the clock minus N days taken in whole milliseconds.
C3_TimeWindow ==
    pc \in {"loop", "returned"} =>
        /\ \A r \in col.revlog :
               r.id \in SelectedIds <=>
                   /\ InDeckSet(r)
                   /\ opts.days # None =>
                          /\ cutoff # None
                          /\ r.id >= Val(cutoff)
        /\ (pc = "loop" /\ opts.days # None) =>
               /\ Val(cutoff) * ClockRes <= now - Val(opts.days) * DayMs * ClockRes
               /\ now - Val(opts.days) * DayMs * ClockRes
                      < (Val(cutoff) + 1) * ClockRes

\* A one-day window kept the row at the cutoff and dropped the row one
\* millisecond older, both of the deck set, and the loop has written the
\* selected rows.
C3_Witness ==
    /\ pc = "loop"
    /\ opts.days = Some(1)
    /\ Val(cutoff) \in SelectedIds
    /\ \E r \in col.revlog : InDeckSet(r) /\ r.id = Val(cutoff) - 1
    /\ now > StartClock
    /\ count = Len(rows)

\* C4: in compact mode every written object has exactly the keys t, rt, e,
\* i, li, f, ms, flds, whatever the three inclusion flags say.
C4_CompactKeys ==
    opts.compact_schema =>
        \A k \in 1..Len(objs) :
            /\ ObjKeys(objs[k]) = {"t", "rt", "e", "i", "li", "f", "ms", "flds"}
            /\ Len(objs[k]) = 8

\* A compact object was written with all three inclusion flags set.
C4_Witness ==
    /\ opts.compact_schema
    /\ opts.include_ids /\ opts.include_deck_name /\ opts.include_ts_ms
    /\ objs # <<>>

\* C5 as stated: a second run with identical arguments on the unchanged
\* collection leaves the file as the first run left it.
C5_Original ==
    (Returned /\ prev # None) => fh = Val(prev).fh

\* The rows of the deck set at or after a cutoff.
InWindow(cut) == {r \in col.revlog : InDeckSet(r) /\ (cut # None => r.id >= Val(cut))}

\* C5 amended: the second run leaves the file as the first run left it when
\* no day window is set or no row of the deck set lies between the cutoffs
\* of the two runs, the cutoff being computed from the clock at every run.
C5_SameFile ==
    (Returned /\ prev # None /\ InWindow(cutoff) = InWindow(Val(prev).cutoff))
        => fh = Val(prev).fh

\* A run with a one-day window was repeated after the clock had advanced, both
\* runs wrote rows, into the same file content.
C5_Witness ==
    /\ Returned
    /\ prev # None
    /\ opts.days = Some(1)
    /\ Val(prev).cutoff # cutoff
    /\ count > 0
    /\ fh = Val(prev).fh

\* The tags of a note: the words of n.tags.
NoteTags(r) == Range(str_split(Notes[Cards[r.cid].nid].tags))

\* C8: with a non-empty tag list, a row that passes the other filters is
\* selected iff some requested tag equals, without regard to case, a complete
\* tag of the row's note.
C8_WholeTagMatch ==
    ( /\ pc \in {"loop", "returned"}
      /\ opts.tags_filter # None
      /\ Val(opts.tags_filter) # <<>> ) =>
        \A r \in col.revlog :
            ( /\ InDeckSet(r)
              /\ cutoff # None => r.id >= Val(cutoff)
              /\ opts.min_interval # None => r.ivl >= Val(opts.min_interval) )
            => ( r.id \in SelectedIds <=>
                    \E i \in 1..Len(Val(opts.tags_filter)) :
                        \E u \in NoteTags(r) :
                            str_lower(Val(opts.tags_filter)[i]) = str_lower(u) )

\* The fields the claim expects for a note: without requested indexes all
\* raw fields sanitized in their order; with requested indexes the sanitized
\* raw field at every requested index within 0 .. number of fields - 1, in
\* the requested order.
ExpectedFields(field_indexes, flds) ==
    LET raw == raw_fields_of(flds)
        InRange(x) == 0 <= x /\ x < Len(raw)
    IN  IF field_indexes = None
        THEN [i \in 1..Len(raw) |-> clean_field_value(raw[i])]
        ELSE LET valid == SelectSeq(Val(field_indexes), InRange)
             IN  [j \in 1..Len(valid) |-> clean_field_value(raw[valid[j] + 1])]

WrittenFields(obj) ==
    ObjGet(obj, IF opts.compact_schema THEN "flds" ELSE "fields").l

\* C9: the fields list of every written object is the expected selection of
\* the raw fields of its row, and is empty for a note without field data.
C9_FieldSelection ==
    \A k \in 1..Len(objs) :
        /\ WrittenFields(objs[k]) = ExpectedFields(opts.field_indexes, rows[k].flds)
        /\ rows[k].flds = <<>> => WrittenFields(objs[k]) = <<>>

\* Indexes 0, 3, 0 were requested for a note of three fields: the first
\* field was written twice and index 3 was skipped.
C9_Witness ==
    /\ opts.field_indexes = Some(<<0, 3, 0>>)
    /\ \E k \in 1..Len(objs) :
           /\ Len(raw_fields_of(rows[k].flds)) = 3
           /\ Len(WrittenFields(objs[k])) = 2

\* C10: with a threshold T > 0 only rows with a new interval >= T are
\* selected; with the threshold zero or unset the selected rows are those of
\* the same query without the minimum-interval clause.
C10_MinInterval ==
    pc \in {"loop", "returned"} =>
        IF opts.min_interval # None /\ Val(opts.min_interval) > 0
        THEN \A i \in 1..Len(rows) : rows[i].ivl >= Val(opts.min_interval)
        ELSE rows = execute(col.revlog, [opts EXCEPT !.min_interval = None],
                            dids, cutoff)

(***************************************************************************)
(* Properties of on_export_llm_stats.                                      *)
(***************************************************************************)
\* The destination is as it was before the request.
FileUntouched == ui.exists = ui.before.exists /\ fh = ui.before.content

\* C11: every request that started the background operation reports exactly
\* one outcome, the success callback with the ExportResult when the call
\* returned and the failure callback with the error when it raised, never
\* both and never none; a run that matched no review reports success with
\* count 0.
C11_OneOutcome ==
    /\ [](Len(ui.reported) <= 1)
    /\ [](ui.reported # <<>> => ui.started = 1)
    /\ [](ui.stage = "reported" =>
            /\ Len(ui.reported) = 1
            /\ pc = "returned" =>
                   /\ ui.reported[1].kind = "success"
                   /\ ui.reported[1].result = Val(result)
                   /\ rows = <<>> => ui.reported[1].result.count = 0
            /\ pc = "raised" =>
                   /\ ui.reported[1].kind = "failure"
                   /\ ui.reported[1].exc = Val(ui.exc))
    /\ [][ui.reported # <<>> => ui.reported' = ui.reported]_vars
    /\ (ui.started = 1) ~> (ui.stage = "reported" /\ Len(ui.reported) = 1)

\* A run over a revlog with reviews matched none of them and was reported
\* to the success callback with count 0.
C11_Witness ==
    /\ ui # <<>>
    /\ ui.stage = "reported"
    /\ col.revlog # {}
    /\ pc = "returned"
    /\ rows = <<>>
    /\ ui.reported[1].kind = "success"
    /\ ui.reported[1].no_match_hint

\* C12 as stated: with an empty destination path the error is shown before
\* any access to the data store, no operation is started, export_llm_stats
\* is not called and no file is created or truncated.
C12_Original ==
    (ui.accepted /\ ui.out_path = <<>>) =>
        /\ ui.tooltip # None
        /\ ui.accesses = <<>>
        /\ ui.started = 0
        /\ pc = "idle"
        /\ FileUntouched

\* C12: with an empty destination path the error is shown at once, after
\* the dialog has read the deck list from the collection and with no other
\* access to the data store; no operation is started, export_llm_stats is
\* not called and no file is created or truncated; an operation is started
\* only with a non-empty path.
C12_EmptyPath ==
    /\ (ui.accepted /\ ui.out_path = <<>>) =>
           /\ ui.stage = "returned"
           /\ ui.tooltip = Some("Invalid file path.")
           /\ ui.accesses = <<"all_names_and_ids">>
           /\ ui.started = 0
           /\ ui.reported = <<>>
           /\ pc = "idle"
           /\ FileUntouched
    /\ ui.started > 0 => ui.out_path # <<>>

\* The dialog was accepted with an empty path while an older file exists
\* at the destination.
C12_Witness ==
    /\ ui # <<>>
    /\ ui.accepted
    /\ ui.out_path = <<>>
    /\ ui.tooltip # None
    /\ ui.before.exists

(***************************************************************************)
(* Properties of the streaming loop.                                       *)
(***************************************************************************)
\* The review times of the rows the loop has processed.
ProcessedTs == {rows[i].ts_ms : i \in 1..count}

\* C13: the rows are written in ascending order of their review time, and
\* during the loop and in the ExportResult first_ts_ms is the least and
\* last_ts_ms the greatest review time of the rows processed so far;
\* within a run first_ts_ms never changes once set and last_ts_ms is set by
\* every row.
C13_RunningMinMax ==
    /\ [](pc \in {"loop", "returned"} =>
            /\ Len(objs) = count
            /\ \A i \in 1..count : ObjGet(objs[i], "ts_ms").n = rows[i].ts_ms
            /\ \A i \in 1..(count - 1) : rows[i].ts_ms <= rows[i + 1].ts_ms
            /\ count = 0 => first_ts_ms = None /\ last_ts_ms = None
            /\ count > 0 =>
                   /\ first_ts_ms # None /\ last_ts_ms # None
                   /\ Val(first_ts_ms) \in ProcessedTs
                   /\ Val(last_ts_ms) \in ProcessedTs
                   /\ \A t \in ProcessedTs :
                          Val(first_ts_ms) <= t /\ t <= Val(last_ts_ms)
            /\ pc = "returned" =>
                   /\ count = Len(rows)
                   /\ Val(result).first_ts_ms = first_ts_ms
                   /\ Val(result).last_ts_ms = last_ts_ms)
    /\ [][(pc = "loop" /\ first_ts_ms # None) =>
              first_ts_ms' = first_ts_ms]_vars
    /\ [][count' = count + 1 =>
              last_ts_ms' = Some(rows[count + 1].ts_ms)]_vars

\* The loop has processed two rows of different review times.
C13_Witness ==
    /\ pc = "loop"
    /\ count = 2
    /\ Val(first_ts_ms) < Val(last_ts_ms)

====
